---- MODULE Spec2Model ----
(***************************************************************************)
(* WR_scraper: the scrape of one WordReference conjugation page            *)
(* (app/scraper_core.py), its configuration (app/config.py) and the        *)
(* narrowing of a scrape result (app/filters.py).                          *)
(*                                                                         *)
(* A Python str is a sequence of one-character strings; the characters     *)
(* that are not written as themselves are named below.  A dict (ordered by *)
(* insertion) is a sequence of <<key, value>> pairs with distinct keys.    *)
(***************************************************************************)
EXTENDS Integers, Sequences, FiniteSets, TLC

VARIABLES
    pc,              \* position of the run in the specification at hand
    verb,            \* scrape_conjugations: the argument
    STRICT_CHECKS,   \* config.STRICT_CHECKS of the deployment
    tries,           \* fetch_html: the retry budget
    url,             \* scrape_conjugations: url
    attempt,         \* fetch_html: the loop variable
    last_err,        \* fetch_html: last_err
    r,               \* fetch_html: the status code of the response r, 0 before it
    errs,            \* fetch_html: the exceptions this call has caught, in order
    log,             \* the calls of requests.get and time.sleep and how each
                     \* call of requests.get ended, in order
    html,            \* the fetched document
    header,          \* scrape_conjugations: header
    conjugations,    \* scrape_conjugations: conjugations
    auxiliary,       \* scrape_conjugations: auxiliary
    stderr,          \* the lines printed to sys.stderr
    ret,             \* the value returned
    exc,             \* the exception raised
    tense_map,       \* _ordered_tense_map: the argument tense_map
    mood,            \* _ordered_tense_map: the argument mood
    data,            \* apply_filters: the argument data
    moods,           \* apply_filters: the argument moods
    tenses,          \* apply_filters: the argument tenses
    persons,         \* apply_filters: the argument persons
    full             \* apply_filters: the argument full

vars ==
    <<pc, verb, STRICT_CHECKS, tries, url, attempt, last_err, r, errs, log, html,
      header,
      conjugations, auxiliary, stderr, ret, exc, tense_map, mood, data, moods,
      tenses, persons, full>>

scrape_vars ==
    <<verb, STRICT_CHECKS, tries, url, attempt, last_err, r, errs, log, html,
      header, stderr>>

order_vars ==
    <<tense_map, mood>>

filter_vars ==
    <<data, moods, tenses, persons, full>>

\* None, where a str may stand
None ==
    <<"None">>

(***************************************************************************)
(* Characters and the string literals of the sources.                      *)
(***************************************************************************)
NBSP ==
    "\\xa0"

TAB ==
    "\\t"

NL ==
    "\\n"

O_GRAVE ==
    "o_grave"

O_GRAVE_UPPER ==
    "O_GRAVE"

ARROW ==
    "=>"

BR ==
    "<br>"

s_indicativo ==
    <<"i", "n", "d", "i", "c", "a", "t", "i", "v", "o">>
s_tempi_composti ==
    <<"t", "e", "m", "p", "i", " ", "c", "o", "m", "p", "o", "s", "t", "i">>
s_congiuntivo ==
    <<"c", "o", "n", "g", "i", "u", "n", "t", "i", "v", "o">>
s_condizionale ==
    <<"c", "o", "n", "d", "i", "z", "i", "o", "n", "a", "l", "e">>
s_imperativo ==
    <<"i", "m", "p", "e", "r", "a", "t", "i", "v", "o">>
s_presente ==
    <<"p", "r", "e", "s", "e", "n", "t", "e">>
s_imperfetto ==
    <<"i", "m", "p", "e", "r", "f", "e", "t", "t", "o">>
s_passato_remoto ==
    <<"p", "a", "s", "s", "a", "t", "o", " ", "r", "e", "m", "o", "t", "o">>
s_futuro_semplice ==
    <<"f", "u", "t", "u", "r", "o", " ", "s", "e", "m", "p", "l", "i", "c", "e">>
s_passato_prossimo ==
    <<"p", "a", "s", "s", "a", "t", "o", " ", "p", "r", "o", "s", "s", "i", "m", "o">>
s_trapassato_prossimo ==
    <<"t", "r", "a", "p", "a", "s", "s", "a", "t", "o", " ", "p", "r", "o", "s", "s", "i", "m", "o">>
s_trapassato_remoto ==
    <<"t", "r", "a", "p", "a", "s", "s", "a", "t", "o", " ", "r", "e", "m", "o", "t", "o">>
s_futuro_anteriore ==
    <<"f", "u", "t", "u", "r", "o", " ", "a", "n", "t", "e", "r", "i", "o", "r", "e">>
s_passato ==
    <<"p", "a", "s", "s", "a", "t", "o">>
s_trapassato ==
    <<"t", "r", "a", "p", "a", "s", "s", "a", "t", "o">>
s_io ==
    <<"i", "o">>
s_tu ==
    <<"t", "u">>
s_lui_lei ==
    <<"l", "u", "i", ",", " ", "l", "e", "i", ",", " ", "L", "e", "i", ",", " ", "e", "g", "l", "i">>
s_noi ==
    <<"n", "o", "i">>
s_voi ==
    <<"v", "o", "i">>
s_loro ==
    <<"l", "o", "r", "o", ",", " ", "L", "o", "r", "o", ",", " ", "e", "s", "s", "i">>
s_imp_tu ==
    <<"(", "t", "u", ")">>
s_imp_Lei ==
    <<"(", "L", "e", "i", ")">>
s_imp_noi ==
    <<"(", "n", "o", "i", ")">>
s_imp_voi ==
    <<"(", "v", "o", "i", ")">>
s_imp_Loro ==
    <<"(", "L", "o", "r", "o", ")">>
s_forma_pronominale ==
    <<"f", "o", "r", "m", "a", " ", "p", "r", "o", "n", "o", "m", "i", "n", "a", "l", "e">>
s_essere ==
    <<"e", "s", "s", "e", "r", "e">>
s_avere ==
    <<"a", "v", "e", "r", "e">>

(***************************************************************************)
(* str methods.                                                            *)
(***************************************************************************)
\* the characters str.isspace() holds of and the pattern \s matches
Whitespace ==
    {" ", TAB, NL, NBSP}

UpperLetters ==
    <<"A", "B", "C", "D", "E", "F", "G", "H", "I", "J", "K", "L", "M", "N", "O",
      "P", "Q", "R", "S", "T", "U", "V", "W", "X", "Y", "Z", O_GRAVE_UPPER>>

LowerLetters ==
    <<"a", "b", "c", "d", "e", "f", "g", "h", "i", "j", "k", "l", "m", "n", "o",
      "p", "q", "r", "s", "t", "u", "v", "w", "x", "y", "z", O_GRAVE>>

LowerChar(c) ==
    IF \E i \in DOMAIN UpperLetters : UpperLetters[i] = c
    THEN LowerLetters[CHOOSE i \in DOMAIN UpperLetters : UpperLetters[i] = c]
    ELSE c

\* str.lower()
lower(s) ==
    [i \in DOMAIN s |-> LowerChar(s[i])]

RECURSIVE lstrip(_)
lstrip(s) ==
    IF s # <<>> /\ Head(s) \in Whitespace THEN lstrip(Tail(s)) ELSE s

RECURSIVE rstrip(_)
rstrip(s) ==
    IF s # <<>> /\ s[Len(s)] \in Whitespace
    THEN rstrip(SubSeq(s, 1, Len(s) - 1))
    ELSE s

\* str.strip()
strip(s) ==
    rstrip(lstrip(s))

\* str.startswith(prefix)
startswith(s, prefix) ==
    /\ Len(prefix) <= Len(s)
    /\ SubSeq(s, 1, Len(prefix)) = prefix

\* str.split(sep) for a one-character sep: the pieces between the separators
RECURSIVE split(_, _)
split(s, sep) ==
    IF \E i \in DOMAIN s : s[i] = sep
    THEN LET i == CHOOSE j \in DOMAIN s :
                      s[j] = sep /\ \A k \in 1..(j - 1) : s[k] # sep
         IN  <<SubSeq(s, 1, i - 1)>> \o split(SubSeq(s, i + 1, Len(s)), sep)
    ELSE <<s>>

\* sep.join(parts)
RECURSIVE join(_, _)
join(sep, parts) ==
    IF parts = <<>> THEN <<>>
    ELSE IF Len(parts) = 1 THEN parts[1]
    ELSE parts[1] \o sep \o join(sep, Tail(parts))

\* s.replace(old, new) for a one-character old
replace(s, old, new) ==
    [i \in DOMAIN s |-> IF s[i] = old THEN new ELSE s[i]]

\* re.sub(r"\s+", " ", s): every maximal run of whitespace becomes one space
RECURSIVE collapse(_)
collapse(s) ==
    IF s = <<>> THEN <<>>
    ELSE IF Head(s) \in Whitespace
    THEN <<" ">> \o collapse(lstrip(s))
    ELSE <<Head(s)>> \o collapse(Tail(s))

\* the result left untrimmed
_norm_spaces_unstripped(s) ==
    collapse(replace(s, NBSP, " "))

_norm_spaces(s) ==
    strip(collapse(replace(s, NBSP, " ")))

(***************************************************************************)
(* dict, as a sequence of <<key, value>> pairs.                            *)
(***************************************************************************)
keys(d) ==
    [i \in DOMAIN d |-> d[i][1]]

has(d, k) ==
    \E i \in DOMAIN d : d[i][1] = k

\* d[k]
get(d, k) ==
    d[CHOOSE i \in DOMAIN d : d[i][1] = k][2]

\* d.get(k, default)
getdefault(d, k, default) ==
    IF has(d, k) THEN get(d, k) ELSE default

\* d[k] = v: a present key keeps its place, a new key goes last
put(d, k, v) ==
    IF has(d, k)
    THEN [i \in DOMAIN d |-> IF d[i][1] = k THEN <<k, v>> ELSE d[i]]
    ELSE Append(d, <<k, v>>)

Range(s) ==
    {s[i] : i \in DOMAIN s}

\* the sequences over S of length at most n
SeqsUpTo(S, n) ==
    UNION {[1..k -> S] : k \in 0..n}

(***************************************************************************)
(* app/config.py                                                           *)
(***************************************************************************)
BASE ==
    <<"https://www.wordreference.com/conj/itverbs.aspx">>

EXPECTED ==
    << <<s_indicativo,
         {s_presente, s_imperfetto, s_passato_remoto, s_futuro_semplice}>>,
       <<s_tempi_composti,
         {s_passato_prossimo, s_trapassato_prossimo, s_trapassato_remoto,
          s_futuro_anteriore}>>,
       <<s_congiuntivo,
         {s_presente, s_imperfetto, s_passato, s_trapassato}>>,
       <<s_condizionale, {s_presente, s_passato}>>,
       <<s_imperativo, {s_presente}>> >>

PERSON_ORDER_DEFAULT ==
    <<s_io, s_tu, s_lui_lei, s_noi, s_voi, s_loro>>

PERSON_ORDER_IMPERATIVE ==
    <<<<>>, s_imp_tu, s_imp_Lei, s_imp_noi, s_imp_voi, s_imp_Loro>>

(***************************************************************************)
(* Bounds of the inputs.                                                   *)
(***************************************************************************)
\* the longest verb typed by the caller
MaxVerbLen ==
    2

\* the largest retry budget fetch_html is called with
MaxTries ==
    3

\* the default of fetch_html's parameter tries
DefaultTries ==
    2

(***************************************************************************)
(* app/scraper_core.py: build_url                                          *)
(***************************************************************************)
\* urllib.parse.quote_plus of one character
quote_char(c) ==
    CASE c = " " -> <<"+">>
      [] c = NBSP -> <<"%", "C", "2", "%", "A", "0">>
      [] c = TAB -> <<"%", "0", "9">>
      [] c = NL -> <<"%", "0", "A">>
      [] OTHER -> <<c>>

RECURSIVE quote_plus(_)
quote_plus(s) ==
    IF s = <<>> THEN <<>> ELSE quote_char(Head(s)) \o quote_plus(Tail(s))

\* urlencode({'v': verb})
urlencode_v(v) ==
    <<"v", "=">> \o quote_plus(v)

\* verb = (verb or "").strip()
build_url_verb(v) ==
    strip(IF v = None THEN <<>> ELSE v)

\* build_url without the strip: only the empty verb is refused
build_url_raises_unstripped(v) ==
    v = None \/ v = <<>>

\* if not verb: raise ValueError("Empty verb provided.")
build_url_raises(v) ==
    build_url_verb(v) = <<>>

build_url(v) ==
    BASE \o <<"?">> \o urlencode_v(build_url_verb(v))

(***************************************************************************)
(* The fetched document, as BeautifulSoup sees it:                         *)
(*   [h3, conjtable, sections], h3 the text of the first h3 or None,       *)
(*   conjtable the td cells of the first row of table#conjtable (<<>> when *)
(*   the table, its row or its cells are absent),                          *)
(*   sections the div.aa elements: [h4, tables], h4 a text or None,        *)
(*   tables the table.neoConj elements, each the sequence of its tr rows:  *)
(*   [col, row, td], the text of the row's th scope=col (arrow spans       *)
(*   removed), of its th scope=row and of its td, each None when absent.   *)
(***************************************************************************)
\* tag.get_text(strip=True) of an element holding one text
get_text_strip(text) ==
    strip(text)

\* lines_from_td_br_only: the cell's text with every <br> a token, split there
lines_from_td_br_only(td) ==
    LET parts == [i \in DOMAIN split(td, BR) |-> _norm_spaces(split(td, BR)[i])]
    IN  SelectSeq(parts, LAMBDA p : p # <<>>)

\* lbl.lower().rstrip(":")
RECURSIVE rstrip_colon(_)
rstrip_colon(s) ==
    IF s # <<>> /\ s[Len(s)] = ":"
    THEN rstrip_colon(SubSeq(s, 1, Len(s) - 1))
    ELSE s

\* val.replace("=>", "").strip() (the arrow glyph is one character)
strip_arrow(val) ==
    strip(SelectSeq(val, LAMBDA c : c # ARROW))

RECURSIVE principal_forms_loop(_, _, _, _)
principal_forms_loop(labels, values, i, forms) ==
    IF i > Len(labels) THEN forms
    ELSE LET lbl == labels[i]
             val == IF i <= Len(values) THEN values[i] ELSE <<>>
             v2 == IF lbl = s_forma_pronominale THEN strip_arrow(val) ELSE val
         IN  principal_forms_loop(labels, values, i + 1, put(forms, lbl, v2))

parse_principal_forms(soup) ==
    LET model == IF soup.h3 = None THEN None ELSE get_text_strip(soup.h3)
        tds == soup.conjtable
    IN  IF tds = <<>>
        THEN [model |-> model, forms |-> <<>>]
        ELSE LET raw == lines_from_td_br_only(tds[1])
                 labels == [i \in DOMAIN raw |-> rstrip_colon(lower(raw[i]))]
                 values == IF Len(tds) > 1
                           THEN lines_from_td_br_only(tds[2])
                           ELSE <<>>
             IN  [model |-> model,
                  forms |-> principal_forms_loop(labels, values, 1, <<>>)]

(***************************************************************************)
(* app/scraper_core.py: _ordered_tense_map and parse_conjugations          *)
(***************************************************************************)
\* the first loop: the desired keys that are in tense_map, in desired order
RECURSIVE ordered_desired(_, _, _)
ordered_desired(desired, tm, ordered) ==
    IF desired = <<>> THEN ordered
    ELSE ordered_desired(Tail(desired), tm,
                         IF has(tm, Head(desired))
                         THEN put(ordered, Head(desired), get(tm, Head(desired)))
                         ELSE ordered)

\* the second loop: the remaining keys in their original order
RECURSIVE ordered_rest(_, _)
ordered_rest(items, ordered) ==
    IF items = <<>> THEN ordered
    ELSE ordered_rest(Tail(items),
                      IF ~has(ordered, Head(items)[1])
                      THEN put(ordered, Head(items)[1], Head(items)[2])
                      ELSE ordered)

\* the imperative order never chosen
_ordered_tense_map_default(tm, m, t) ==
    ordered_rest(tm, ordered_desired(PERSON_ORDER_DEFAULT, tm, <<>>))

_ordered_tense_map(tm, m, t) ==
    LET desired == IF m = s_imperativo
                   THEN PERSON_ORDER_IMPERATIVE
                   ELSE PERSON_ORDER_DEFAULT
    IN  ordered_rest(tm, ordered_desired(desired, tm, <<>>))

\* the tense name of one table.neoConj
table_tense(trs) ==
    LET t == IF trs # <<>> /\ trs[1].col # None
             THEN lower(get_text_strip(trs[1].col))
             ELSE <<>>
    IN  IF t = <<>> THEN <<"?">> ELSE t

\* the rows after the first: person -> form
RECURSIVE table_rows(_, _)
table_rows(trs, tm) ==
    IF trs = <<>> THEN tm
    ELSE LET tr == Head(trs)
         IN  table_rows(Tail(trs),
                        IF tr.row = None \/ tr.td = None
                        THEN tm
                        ELSE put(tm, get_text_strip(tr.row), _norm_spaces(tr.td)))

RECURSIVE section_tables(_, _, _)
section_tables(tables, m, tenses_of_mood) ==
    IF tables = <<>> THEN tenses_of_mood
    ELSE LET trs == Head(tables)
             tm == table_rows(IF trs = <<>> THEN <<>> ELSE Tail(trs), <<>>)
         IN  section_tables(Tail(tables), m,
                            put(tenses_of_mood, table_tense(trs),
                                _ordered_tense_map(tm, m, table_tense(trs))))

\* every section starting its mood afresh
RECURSIVE parse_sections_overwriting(_, _)
parse_sections_overwriting(sections, result) ==
    IF sections = <<>> THEN result
    ELSE LET section == Head(sections)
         IN  IF section.h4 = None
             THEN parse_sections_overwriting(Tail(sections), result)
             ELSE LET m == lower(get_text_strip(section.h4))
                  IN  parse_sections_overwriting(
                          Tail(sections),
                          put(result, m, section_tables(section.tables, m, <<>>)))

RECURSIVE parse_sections(_, _)
parse_sections(sections, result) ==
    IF sections = <<>> THEN result
    ELSE LET section == Head(sections)
         IN  IF section.h4 = None
             THEN parse_sections(Tail(sections), result)
             ELSE LET m == lower(get_text_strip(section.h4))
                      r1 == IF has(result, m) THEN result ELSE put(result, m, <<>>)
                  IN  parse_sections(Tail(sections),
                                     put(r1, m, section_tables(section.tables, m,
                                                               get(r1, m))))

parse_conjugations(soup) ==
    parse_sections(soup.sections, <<>>)

(***************************************************************************)
(* app/scraper_core.py: _detect_auxiliary and _check_expected              *)
(***************************************************************************)
\* the form compared as it is cased
_detect_auxiliary_cased(conj) ==
    LET pp == getdefault(getdefault(conj, s_tempi_composti, <<>>),
                         s_passato_prossimo, <<>>)
        io_pp == getdefault(pp, s_io, <<>>)
    IN  IF \/ startswith(io_pp, <<"s", "o", "n", "o", " ">>)
           \/ startswith(io_pp, <<"e", "r", "o", " ">>)
           \/ startswith(io_pp, <<"s", "a", "r", O_GRAVE, " ">>)
        THEN s_essere
        ELSE IF \/ startswith(io_pp, <<"h", "o", " ">>)
                \/ startswith(io_pp, <<"a", "v", "e", "v", "o", " ">>)
                \/ startswith(io_pp, <<"a", "v", "r", O_GRAVE, " ">>)
        THEN s_avere
        ELSE None

_detect_auxiliary(conj) ==
    LET pp == getdefault(getdefault(conj, s_tempi_composti, <<>>),
                         s_passato_prossimo, <<>>)
        io_pp == lower(getdefault(pp, s_io, <<>>))
    IN  IF \/ startswith(io_pp, <<"s", "o", "n", "o", " ">>)
           \/ startswith(io_pp, <<"e", "r", "o", " ">>)
           \/ startswith(io_pp, <<"s", "a", "r", O_GRAVE, " ">>)
        THEN s_essere
        ELSE IF \/ startswith(io_pp, <<"h", "o", " ">>)
                \/ startswith(io_pp, <<"a", "v", "e", "v", "o", " ">>)
                \/ startswith(io_pp, <<"a", "v", "r", O_GRAVE, " ">>)
        THEN s_avere
        ELSE None

\* the list missing: one message <<kind, mood, missing tenses>> per expected
\* mood that is absent or incomplete, in EXPECTED's order
RECURSIVE check_expected_missing(_, _, _)
check_expected_missing(expected, conj, missing) ==
    IF expected = <<>> THEN missing
    ELSE LET m == Head(expected)[1]
             required == Head(expected)[2]
         IN  IF ~has(conj, m)
             THEN check_expected_missing(Tail(expected), conj,
                                         Append(missing, <<"Missing mood", m, {}>>))
             ELSE LET got == Range(keys(get(conj, m)))
                      diff == required \ got
                  IN  check_expected_missing(
                          Tail(expected), conj,
                          IF diff # {}
                          THEN Append(missing, <<"Missing tense(s) in", m, diff>>)
                          ELSE missing)

_check_expected_missing(conj) ==
    check_expected_missing(EXPECTED, conj, <<>>)

(***************************************************************************)
(* The documents the site answers with: for every expected mood, its       *)
(* section is absent, complete, or lacks its last tense.                   *)
(***************************************************************************)
Title(s) ==
    [i \in DOMAIN s |->
        IF i = 1 /\ \E j \in DOMAIN LowerLetters : LowerLetters[j] = s[1]
        THEN UpperLetters[CHOOSE j \in DOMAIN LowerLetters : LowerLetters[j] = s[1]]
        ELSE s[i]]

\* the tenses of each mood in the order the site shows them
SiteTenses ==
    << <<s_indicativo,
         <<s_presente, s_imperfetto, s_passato_remoto, s_futuro_semplice>> >>,
       <<s_tempi_composti,
         <<s_passato_prossimo, s_trapassato_prossimo, s_trapassato_remoto,
           s_futuro_anteriore>> >>,
       <<s_congiuntivo,
         <<s_presente, s_imperfetto, s_passato, s_trapassato>> >>,
       <<s_condizionale, <<s_presente, s_passato>> >>,
       <<s_imperativo, <<s_presente>> >> >>

SectionOptions ==
    {"absent", "full", "partial"}

HeaderRow(tense) ==
    [col |-> Title(tense), row |-> None, td |-> None]

\* one table.neoConj of the site: the header row and one person row
SiteTable(m, tense) ==
    << HeaderRow(tense),
       [col |-> None,
        row |-> IF m = s_imperativo THEN s_imp_tu ELSE s_io,
        td |-> IF m = s_tempi_composti
               THEN <<"h", "o", NBSP, "x">>
               ELSE <<"x">>] >>

SiteSection(m, tenselist) ==
    [h4 |-> Title(m),
     tables |-> [i \in DOMAIN tenselist |-> SiteTable(m, tenselist[i])]]

RECURSIVE SiteSections(_, _)
SiteSections(site, choice) ==
    IF site = <<>> THEN <<>>
    ELSE LET m == Head(site)[1]
             all == Head(site)[2]
             rest == SiteSections(Tail(site), choice)
         IN  CASE choice[m] = "absent" -> rest
               [] choice[m] = "full" -> <<SiteSection(m, all)>> \o rest
               [] OTHER ->
                    <<SiteSection(m, SubSeq(all, 1, Len(all) - 1))>> \o rest

SiteMoods ==
    Range(keys(SiteTenses))

\* the head of a page: the h3 title and the first row of table#conjtable
SiteHead ==
    [h3 |-> <<" ", "x", " ">>,
     conjtable |-> << <<"I", "n", "f", ":", BR>> \o Title(s_forma_pronominale),
                      <<"x", BR, "x", ARROW, " ">> >>]

\* a page with neither
NoHead ==
    [h3 |-> None, conjtable |-> <<>>]

Doc(head, choice) ==
    [h3 |-> head.h3, conjtable |-> head.conjtable,
     sections |-> SiteSections(SiteTenses, choice)]

\* every choice of sections under the site's head, and the headless pages
\* whose sections are all alike
Docs ==
    {Doc(SiteHead, choice) : choice \in [SiteMoods -> SectionOptions]}
    \cup {Doc(NoHead, [m \in SiteMoods |-> o]) : o \in SectionOptions}

\* the verbs typed: every string of letters and spaces up to the bound, the
\* absent verb, and verbs with the other whitespace characters
Verbs ==
    SeqsUpTo({"a", " "}, MaxVerbLen)
    \cup {None, <<NBSP>>, <<TAB, NL>>, <<NBSP, "a", NBSP>>, <<"a", NBSP, "a">>}

\* the status codes the site answers with
Statuses ==
    {200, 304, 404, 500}

\* subclasses of requests.RequestException that requests.get raises
RequestExceptions ==
    {<<"Timeout">>}

\* exceptions that are no requests.RequestException
OtherExceptions ==
    {<<"UnicodeError">>}

(***************************************************************************)
(* scrape_conjugations(verb), one step per call it makes.  fetch_html is   *)
(* entered with the budget tries; its frame (tries, attempt, last_err) is  *)
(* gone when it returns or raises.                                         *)
(***************************************************************************)
Idle_scrape ==
    /\ verb = None
    /\ STRICT_CHECKS = FALSE
    /\ tries = 0
    /\ url = None
    /\ attempt = 0
    /\ last_err = <<>>
    /\ r = 0
    /\ errs = <<>>
    /\ log = <<>>
    /\ html = <<>>
    /\ header = <<>>
    /\ stderr = <<>>

Idle_order ==
    /\ tense_map = <<>>
    /\ mood = None

Idle_filter ==
    /\ data = <<>>
    /\ moods = None
    /\ tenses = None
    /\ persons = None
    /\ full = FALSE

Init ==
    /\ pc = "build_url"
    /\ verb \in Verbs
    /\ STRICT_CHECKS \in BOOLEAN
    /\ tries = 0
    /\ url = None
    /\ attempt = 0
    /\ last_err = <<>>
    /\ r = 0
    /\ errs = <<>>
    /\ log = <<>>
    /\ html = <<>>
    /\ header = <<>>
    /\ conjugations = <<>>
    /\ auxiliary = None
    /\ stderr = <<>>
    /\ ret = <<>>
    /\ exc = <<>>
    /\ Idle_order
    /\ Idle_filter

\* url = build_url(verb); html = fetch_html(url) is entered
BuildUrl ==
    /\ pc = "build_url"
    /\ IF build_url_raises(verb)
       THEN /\ exc' = <<"ValueError">>
            /\ pc' = "raised"
            /\ UNCHANGED <<url, tries, attempt>>
       ELSE /\ url' = build_url(verb)
            /\ \E t \in 0..MaxTries : tries' = t
            /\ attempt' = 1
            /\ pc' = "loop"
            /\ exc' = exc
    /\ UNCHANGED <<verb, STRICT_CHECKS, last_err, r, errs, log, html, header,
                   conjugations, auxiliary, stderr, ret, order_vars, filter_vars>>

\* for attempt in range(1, tries + 1): requests.get(url, ...) is called
Request ==
    /\ pc = "loop"
    /\ attempt <= tries
    /\ log' = Append(log, <<"get", attempt>>)
    /\ pc' = "get"
    /\ UNCHANGED <<verb, STRICT_CHECKS, tries, url, attempt, last_err, r, errs,
                   html, header, conjugations, auxiliary, stderr, ret, exc,
                   order_vars, filter_vars>>

\* time.sleep(1.0 * attempt)
sleep_delay(n) ==
    1 * n

\* the test written attempt <= tries: a delay after the last attempt too
sleeps_after_every(n, budget) ==
    n <= budget

\* if attempt < tries
sleeps_after(n, budget) ==
    n < budget

\* last_err kept from the first failure
caught_first_err(old, e) ==
    IF old = <<>> THEN e ELSE old

\* last_err = e
caught_last_err(old, e) ==
    e

\* except requests.RequestException as e
Caught(e) ==
    /\ last_err' = caught_last_err(last_err, e)
    /\ errs' = Append(errs, e)
    /\ log' = Append(log, <<"failed", attempt>>)
    /\ r' = 0
    /\ IF sleeps_after(attempt, tries)
       THEN pc' = "sleep" /\ attempt' = attempt
       ELSE pc' = "loop" /\ attempt' = attempt + 1
    /\ UNCHANGED <<verb, STRICT_CHECKS, tries, url, html, header, conjugations,
                   auxiliary, stderr, ret, exc, order_vars, filter_vars>>

\* r.raise_for_status() raises HTTPError exactly for a 4xx or 5xx status
raise_for_status(status) ==
    400 <= status /\ status < 600

\* requests.get returns the response r
Respond ==
    /\ pc = "get"
    /\ \E status \in Statuses : r' = status
    /\ pc' = "status"
    /\ UNCHANGED <<verb, STRICT_CHECKS, tries, url, attempt, last_err, errs, log,
                   html, header, conjugations, auxiliary, stderr, ret, exc,
                   order_vars, filter_vars>>

\* r.raise_for_status() raises
StatusError ==
    /\ pc = "status"
    /\ raise_for_status(r)
    /\ Caught(<<"HTTPError", r>>)

\* return r.text
ReturnText ==
    /\ pc = "status"
    /\ ~raise_for_status(r)
    /\ \E body \in Docs : html' = <<body>>
    /\ log' = Append(log, <<"returned", attempt>>)
    /\ pc' = "parse"
    /\ tries' = 0
    /\ attempt' = 0
    /\ last_err' = <<>>
    /\ r' = 0
    /\ errs' = <<>>
    /\ UNCHANGED <<verb, STRICT_CHECKS, url, header, conjugations, auxiliary,
                   stderr, ret, exc, order_vars, filter_vars>>

\* requests.get raises a RequestException
RequestFails ==
    /\ pc = "get"
    /\ \E e \in RequestExceptions : Caught(e)

\* requests.get raises an exception the except clause does not name
RequestAborts ==
    /\ pc = "get"
    /\ \E e \in OtherExceptions : exc' = e
    /\ log' = Append(log, <<"aborted", attempt>>)
    /\ pc' = "raised"
    /\ tries' = 0
    /\ attempt' = 0
    /\ last_err' = <<>>
    /\ errs' = <<>>
    /\ UNCHANGED <<verb, STRICT_CHECKS, url, r, html, header, conjugations,
                   auxiliary, stderr, ret, order_vars, filter_vars>>

Sleep ==
    /\ pc = "sleep"
    /\ log' = Append(log, <<"sleep", sleep_delay(attempt)>>)
    /\ attempt' = attempt + 1
    /\ pc' = "loop"
    /\ UNCHANGED <<verb, STRICT_CHECKS, tries, url, last_err, r, errs, html,
                   header, conjugations, auxiliary, stderr, ret, exc, order_vars,
                   filter_vars>>

\* the loop is over: raise last_err (raise None is a TypeError)
Exhausted ==
    /\ pc = "loop"
    /\ attempt > tries
    /\ exc' = IF last_err = <<>> THEN <<"TypeError">> ELSE last_err
    /\ pc' = "raised"
    /\ tries' = 0
    /\ attempt' = 0
    /\ last_err' = <<>>
    /\ errs' = <<>>
    /\ UNCHANGED <<verb, STRICT_CHECKS, url, r, log, html, header, conjugations,
                   auxiliary, stderr, ret, order_vars, filter_vars>>

\* soup = BeautifulSoup(html, "lxml"); header = parse_principal_forms(soup);
\* conjugations = parse_conjugations(soup);
\* auxiliary = _detect_auxiliary(conjugations)
Parse ==
    /\ pc = "parse"
    /\ header' = <<parse_principal_forms(html[1])>>
    /\ conjugations' = parse_conjugations(html[1])
    /\ auxiliary' = _detect_auxiliary(conjugations')
    /\ pc' = "check"
    /\ UNCHANGED <<verb, STRICT_CHECKS, tries, url, attempt, last_err, r, errs, log,
                   html,
                   stderr, ret, exc, order_vars, filter_vars>>

\* the raise taken whatever STRICT_CHECKS is
check_raises_always(strict, missing) ==
    missing # <<>>

\* if STRICT_CHECKS: raise AssertionError(msg)
check_raises(strict, missing) ==
    missing # <<>> /\ strict

\* else: print(f"[WARN] {msg}", file=sys.stderr)
check_warns(strict, missing) ==
    missing # <<>> /\ ~strict

\* the dict scrape_conjugations returns
scrape_result(queried, u, head, aux, conj) ==
    [queried |-> queried,
     url |-> u,
     model |-> head.model,
     principal_forms |-> head.forms,
     auxiliary |-> aux,
     conjugations |-> conj]

\* _check_expected(conjugations); return {...}
Check ==
    /\ pc = "check"
    /\ LET missing == _check_expected_missing(conjugations)
       IN  /\ stderr' = IF check_warns(STRICT_CHECKS, missing)
                        THEN Append(stderr, <<"[WARN]", missing>>)
                        ELSE stderr
           /\ IF check_raises(STRICT_CHECKS, missing)
              THEN /\ exc' = <<"AssertionError", missing>>
                   /\ ret' = ret
                   /\ pc' = "raised"
              ELSE /\ exc' = exc
                   /\ ret' = <<scrape_result(verb, url, header[1], auxiliary,
                                             conjugations)>>
                   /\ pc' = "done"
    /\ UNCHANGED <<verb, STRICT_CHECKS, tries, url, attempt, last_err, r, errs, log,
                   html,
                   header, conjugations, auxiliary, order_vars, filter_vars>>

Next ==
    \/ BuildUrl
    \/ Request
    \/ Respond
    \/ StatusError
    \/ ReturnText
    \/ RequestFails
    \/ RequestAborts
    \/ Sleep
    \/ Exhausted
    \/ Parse
    \/ Check

Spec ==
    Init /\ [][Next]_vars

(***************************************************************************)
(* Properties of the scrape (specification Spec).                          *)
(***************************************************************************)
Count(l, kind) ==
    Cardinality({i \in DOMAIN l : l[i][1] = kind})

\* the attempts started, the attempts that failed, the delays taken
Started(l) ==
    Count(l, "get")

Failed(l) ==
    Count(l, "failed")

Slept(l) ==
    Count(l, "sleep")

FetchPcs ==
    {"loop", "get", "status", "sleep"}

AfterFetchPcs ==
    {"parse", "check", "done", "raised"}

\* empty after trimming: absent, or nothing but whitespace
Blank(v) ==
    v = None \/ \A i \in DOMAIN v : v[i] \in Whitespace

\* C1: a verb that is empty after trimming makes the scrape fail with
\* ValueError before any fetch attempt is started (nothing is ever requested,
\* fetched or returned in that run); for a verb that is not empty after
\* trimming build_url does not fail and yields the url.
C1_EmptyVerbFailsBeforeFetch ==
    IF Blank(verb)
    THEN /\ log = <<>>
         /\ html = <<>>
         /\ ret = <<>>
         /\ pc \in {"build_url", "raised"}
         /\ pc = "raised" => exc = <<"ValueError">>
    ELSE /\ exc # <<"ValueError">>
         /\ pc # "build_url" => url # None

C1_Witness ==
    /\ pc = "raised"
    /\ exc = <<"ValueError">>
    /\ verb # None
    /\ Len(verb) = 2
    /\ log = <<>>

C2_Step ==
    /\ Started(log') > Started(log) =>
          /\ Started(log') <= tries
          /\ tries = DefaultTries => Started(log') <= 2
          /\ Failed(log) = Started(log)
          /\ Started(log) >= 1 =>
                /\ log[Len(log)] = <<"sleep", Started(log)>>
                /\ log[Len(log) - 1] = <<"failed", Started(log)>>
    /\ Slept(log') > Slept(log) =>
          /\ Started(log) < tries
          /\ log' = Append(log, <<"sleep", Failed(log)>>)
    /\ (pc = "loop" /\ pc' = "raised") =>
          (log = <<>> \/ log[Len(log)][1] = "failed")

\* C2: in every run of fetch_html at most tries attempts are made (two with
\* the default budget); an attempt starts only when every earlier attempt has
\* failed; the attempt after the n-th failure starts right after one delay of
\* n units; a delay is taken only while an attempt remains, so none follows
\* the failure of the last attempt.
C2_FetchSchedule ==
    [][C2_Step]_vars

C2_Witness ==
    /\ tries = DefaultTries
    /\ log = << <<"get", 1>>, <<"failed", 1>>, <<"sleep", 1>>, <<"get", 2>> >>

\* requests.Response.ok: a status that is no client or server error
OkStatus(status) ==
    status < 400

C3_Step ==
    /\ (pc = "status" /\ OkStatus(r)) =>
          /\ pc' = "parse"
          /\ html' # <<>>
          /\ exc' = <<>>
          /\ log' = Append(log, <<"returned", attempt>>)
    /\ pc' = "parse" => (pc = "status" /\ OkStatus(r))
    /\ pc \in AfterFetchPcs => log' = log
    /\ (pc \in FetchPcs /\ pc' = "raised") =>
          \/ /\ pc = "loop"
             /\ Started(log) = tries
             /\ Failed(log) = tries
             /\ log' = log
             /\ tries >= 1 => exc' = errs[Len(errs)]
          \/ /\ pc = "get"
             /\ exc' \in OtherExceptions
             /\ Started(log') = Started(log)

\* C3: fetch_html returns the body of the first response whose status is a
\* success status and nothing is requested after that; it raises only when
\* the budget is used up by failed attempts, and then raises the exception of
\* the last attempt (for a budget of at least one attempt), or at once when
\* requests.get raises an exception that is no RequestException; nothing is
\* requested after a raise.
C3_FetchOutcome ==
    [][C3_Step]_vars

C3_Witness ==
    /\ pc = "parse"
    /\ html # <<>>
    /\ log = << <<"get", 1>>, <<"failed", 1>>, <<"sleep", 1>>, <<"get", 2>>,
                <<"returned", 2>> >>

\* the messages the validator owes for a table: one for each expected mood
\* that is absent, one for each expected mood present without one of its tenses
C10_Owed(conj) ==
    {<<"Missing mood", e[1], {}>> : e \in {x \in Range(EXPECTED) : ~has(conj, x[1])}}
    \cup
    {<<"Missing tense(s) in", e[1], e[2] \ Range(keys(get(conj, e[1])))>> :
        e \in {x \in Range(EXPECTED) :
                  /\ has(conj, x[1])
                  /\ \E t \in x[2] : ~has(get(conj, x[1]), t)}}

C10_Extracted ==
    [queried |-> verb,
     url |-> url,
     model |-> header[1].model,
     principal_forms |-> header[1].forms,
     auxiliary |-> auxiliary,
     conjugations |-> conjugations]

\* C10: once the table is validated, with owed messages and STRICT_CHECKS the
\* scrape has raised AssertionError with exactly the owed messages and returned
\* nothing; with owed messages and not STRICT_CHECKS it has printed exactly the
\* owed messages to stderr, raised nothing and returned the six fields as
\* they were extracted, no diagnostic among them; with no owed message it has
\* printed nothing, raised nothing and returned the six fields as extracted.
C10_Validation ==
    (header # <<>> /\ pc \in {"done", "raised"}) =>
        LET owed == C10_Owed(conjugations)
        IN  IF owed # {} /\ STRICT_CHECKS
            THEN /\ pc = "raised"
                 /\ exc[1] = "AssertionError"
                 /\ Range(exc[2]) = owed
                 /\ Len(exc[2]) = Cardinality(owed)
                 /\ ret = <<>>
                 /\ stderr = <<>>
            ELSE /\ pc = "done"
                 /\ exc = <<>>
                 /\ ret = <<C10_Extracted>>
                 /\ IF owed # {}
                    THEN /\ Len(stderr) = 1
                         /\ Range(stderr[1][2]) = owed
                         /\ Len(stderr[1][2]) = Cardinality(owed)
                    ELSE stderr = <<>>

C10_Witness ==
    /\ pc = "done"
    /\ ~STRICT_CHECKS
    /\ ret # <<>>
    /\ Len(stderr) = 1
    /\ \E i \in DOMAIN stderr[1][2] : stderr[1][2][i][1] = "Missing mood"
    /\ \E i \in DOMAIN stderr[1][2] : stderr[1][2][i][1] = "Missing tense(s) in"

(***************************************************************************)
(* _ordered_tense_map on its own (specification SpecOrder): every          *)
(* extracted person -> form mapping up to the bound, under every mood.     *)
(***************************************************************************)
\* the most rows of one tense table
MaxPersons ==
    3

\* person labels of both canonical lists and one of neither
OrderPersons ==
    {s_io, s_tu, s_voi, <<>>, s_imp_tu, <<"x">>}

OrderForms ==
    {<<"f">>, <<"g">>}

\* mood names: the imperative, two others, and one cased otherwise
OrderMoods ==
    {s_imperativo, s_indicativo, s_congiuntivo, Title(s_imperativo)}

\* the dicts person -> form with at most MaxPersons keys, in every order
TenseMaps ==
    {tm \in SeqsUpTo(OrderPersons \X OrderForms, MaxPersons) :
        \A i, j \in DOMAIN tm : i # j => tm[i][1] # tm[j][1]}

InitOrder ==
    /\ pc = "call"
    /\ tense_map \in TenseMaps
    /\ mood \in OrderMoods
    /\ conjugations = <<>>
    /\ auxiliary = None
    /\ ret = <<>>
    /\ exc = <<>>
    /\ Idle_scrape
    /\ Idle_filter

OrderCall ==
    /\ pc = "call"
    /\ ret' = <<_ordered_tense_map(tense_map, mood, s_presente)>>
    /\ pc' = "done"
    /\ UNCHANGED <<scrape_vars, order_vars, filter_vars, conjugations, auxiliary,
                   exc>>

NextOrder ==
    OrderCall

SpecOrder ==
    InitOrder /\ [][NextOrder]_vars

\* the place of key k in the sequence s of keys, 0 when it is not there
Place(s, k) ==
    IF \E i \in DOMAIN s : s[i] = k
    THEN CHOOSE i \in DOMAIN s : s[i] = k
    ELSE 0

\* the canonical list the claim names for a mood
C4_Canonical(m) ==
    IF m = s_imperativo
    THEN <<<<>>, s_imp_tu, s_imp_Lei, s_imp_noi, s_imp_voi, s_imp_Loro>>
    ELSE <<s_io, s_tu, s_lui_lei, s_noi, s_voi, s_loro>>

\* C4: the mapping _ordered_tense_map returns holds exactly the extracted
\* (person, form) pairs; the persons of the mood's canonical list come first,
\* in the order of that list, and the other persons follow in extraction
\* order; for "indicativo", [voi, io, tu] is emitted as [io, tu, voi].
C4_OrderedTenseMap ==
    pc = "done" =>
        LET out == ret[1]
            canon == C4_Canonical(mood)
        IN  /\ Len(out) = Len(tense_map)
            /\ Range(out) = Range(tense_map)
            /\ \A i, j \in DOMAIN out :
                  i < j =>
                     /\ Place(canon, out[j][1]) # 0 =>
                           /\ Place(canon, out[i][1]) # 0
                           /\ Place(canon, out[i][1]) < Place(canon, out[j][1])
                     /\ (Place(canon, out[i][1]) = 0 /\ Place(canon, out[j][1]) = 0)
                           => Place(keys(tense_map), out[i][1])
                                < Place(keys(tense_map), out[j][1])
            /\ (mood = s_indicativo /\ keys(tense_map) = <<s_voi, s_io, s_tu>>)
                  => keys(out) = <<s_io, s_tu, s_voi>>

C4_Witness ==
    /\ pc = "done"
    /\ mood = s_imperativo
    /\ keys(tense_map) = <<<<"x">>, s_imp_tu, <<>>>>
    /\ keys(ret[1]) = <<<<>>, s_imp_tu, <<"x">>>>

(***************************************************************************)
(* _detect_auxiliary on its own (specification SpecAux): tables with and   *)
(* without the path tempi composti / passato prossimo / io, and forms that *)
(* begin with the six auxiliaries, cased both ways, or almost do.          *)
(***************************************************************************)
AuxWords ==
    { <<"s", "o", "n", "o">>, <<"e", "r", "o">>, <<"s", "a", "r", O_GRAVE>>,
      <<"h", "o">>, <<"a", "v", "e", "v", "o">>, <<"a", "v", "r", O_GRAVE>>,
      <<"S", "o", "n", "o">>, <<"E", "R", "O">>, <<"S", "a", "r", O_GRAVE_UPPER>>,
      <<"H", "o">>, <<"A", "V", "E", "V", "O">>, <<"a", "v", "r", O_GRAVE_UPPER>>,
      <<"s", "o", "n">>, <<"h">>, <<"a", "v", "r", "o">>, <<"s", "i", "a", "m", "o">>,
      <<>> }

AuxForms ==
    {pre \o w \o suf :
        pre \in {<<>>, <<"x">>},
        w \in AuxWords,
        suf \in {<<>>, <<" ">>, <<" ", "x">>, <<"x">>, <<NBSP, "x">>}}

\* one tense with one table of persons
OneTense(tense, pm) ==
    <<<<tense, pm>>>>

AuxTables ==
    {<<>>,
     <<<<s_tempi_composti, <<>>>>>>,
     <<<<s_tempi_composti, OneTense(s_passato_prossimo, <<>>)>>>>}
    \cup
    UNION {
      { <<<<s_indicativo, OneTense(s_passato_prossimo, <<<<s_io, f>>>>)>>>>,
        <<<<s_tempi_composti, OneTense(s_trapassato_prossimo, <<<<s_io, f>>>>)>>>>,
        <<<<s_tempi_composti, OneTense(s_passato_prossimo, <<<<s_tu, f>>>>)>>>>,
        <<<<s_tempi_composti, OneTense(s_passato_prossimo, <<<<s_io, f>>>>)>>>>,
        <<<<s_indicativo, OneTense(s_presente, <<<<s_io, <<"x">>>>>>)>>,
          <<s_tempi_composti,
            <<<<s_trapassato_prossimo, <<<<s_io, <<"x">>>>>>>>,
              <<s_passato_prossimo, <<<<s_tu, <<"x">>>>, <<s_io, f>>>>>>>>>> >> }
      : f \in AuxForms }

InitAux ==
    /\ pc = "call"
    /\ conjugations \in AuxTables
    /\ auxiliary = None
    /\ ret = <<>>
    /\ exc = <<>>
    /\ Idle_scrape
    /\ Idle_order
    /\ Idle_filter

AuxCall ==
    /\ pc = "call"
    /\ auxiliary' = _detect_auxiliary(conjugations)
    /\ ret' = <<_detect_auxiliary(conjugations)>>
    /\ pc' = "done"
    /\ UNCHANGED <<scrape_vars, order_vars, filter_vars, conjugations, exc>>

NextAux ==
    AuxCall

SpecAux ==
    InitAux /\ [][NextAux]_vars

\* p is the beginning of s
IsPrefix(p, s) ==
    /\ Len(p) <= Len(s)
    /\ \A i \in DOMAIN p : s[i] = p[i]

\* the forms stored at [tempi composti][passato prossimo][io]: one or none
C9_Forms(conj) ==
    {conj[i][2][j][2][k][2] :
        <<i, j, k>> \in
          {x \in (DOMAIN conj) \X (1..4) \X (1..4) :
              /\ conj[x[1]][1] = s_tempi_composti
              /\ x[2] \in DOMAIN conj[x[1]][2]
              /\ conj[x[1]][2][x[2]][1] = s_passato_prossimo
              /\ x[3] \in DOMAIN conj[x[1]][2][x[2]][2]
              /\ conj[x[1]][2][x[2]][2][x[3]][1] = s_io}}

C9_Essere ==
    {<<"s", "o", "n", "o", " ">>, <<"e", "r", "o", " ">>,
     <<"s", "a", "r", O_GRAVE, " ">>}

C9_Avere ==
    {<<"h", "o", " ">>, <<"a", "v", "e", "v", "o", " ">>,
     <<"a", "v", "r", O_GRAVE, " ">>}

\* C9: _detect_auxiliary raises nothing and returns "essere" when the form at
\* [tempi composti][passato prossimo][io], lower-cased, begins with "sono ",
\* "ero " or "saro` ", "avere" when it begins with "ho ", "avevo " or
\* "avro` ", and None otherwise, also when the mood, the tense or the person
\* of that path is missing.
C9_DetectAuxiliary ==
    pc = "done" =>
        /\ exc = <<>>
        /\ ret # <<>>
        /\ LET low == {lower(f) : f \in C9_Forms(conjugations)}
           IN  ret[1] =
                 IF \E f \in low : \E p \in C9_Essere : IsPrefix(p, f)
                 THEN s_essere
                 ELSE IF \E f \in low : \E p \in C9_Avere : IsPrefix(p, f)
                 THEN s_avere
                 ELSE None

C9_Witness ==
    /\ pc = "done"
    /\ ret = <<s_essere>>
    /\ <<"S", "a", "r", O_GRAVE_UPPER, " ", "x">> \in C9_Forms(conjugations)

(***************************************************************************)
(* app/filters.py                                                          *)
(***************************************************************************)
\* _to_set returning None
NoneSet ==
    {None}

\* {p.strip().lower() for p in csv.split(",") if p.strip()}
_to_set(csv) ==
    IF csv = None \/ csv = <<>>
    THEN NoneSet
    ELSE {lower(strip(p)) : p \in {q \in Range(split(csv, <<",">>[1])) : strip(q) # <<>>}}

\* the truth value of what _to_set returns: None and the empty set are false
truthy(s) ==
    s # NoneSet /\ s # {}

\* the person selection ignored
filter_person_map_all(pset, person_map) ==
    person_map

\* OrderedDict((p, f) for p, f in person_map.items() if p.lower() in pset),
\* or person_map itself without a selection
filter_person_map(pset, person_map) ==
    IF truthy(pset)
    THEN SelectSeq(person_map, LAMBDA e : lower(e[1]) \in pset)
    ELSE person_map

\* an empty map kept
kept_always(m) ==
    TRUE

\* if filtered_person_map: / if new_tenses_map:
kept(m) ==
    m # <<>>

\* if xset and key.lower() not in xset: continue
skipped(xset, key) ==
    truthy(xset) /\ lower(key) \notin xset

RECURSIVE filter_tenses(_, _, _, _)
filter_tenses(tenses_map, tset, pset, new_tenses_map) ==
    IF tenses_map = <<>> THEN new_tenses_map
    ELSE LET tense == Head(tenses_map)[1]
             filtered == filter_person_map(pset, Head(tenses_map)[2])
         IN  filter_tenses(Tail(tenses_map), tset, pset,
                           IF ~skipped(tset, tense) /\ kept(filtered)
                           THEN put(new_tenses_map, tense, filtered)
                           ELSE new_tenses_map)

RECURSIVE filter_moods(_, _, _, _, _)
filter_moods(conj, mset, tset, pset, new_conj) ==
    IF conj = <<>> THEN new_conj
    ELSE LET m == Head(conj)[1]
             new_tenses_map == filter_tenses(Head(conj)[2], tset, pset, <<>>)
         IN  filter_moods(Tail(conj), mset, tset, pset,
                          IF ~skipped(mset, m) /\ kept(new_tenses_map)
                          THEN put(new_conj, m, new_tenses_map)
                          ELSE new_conj)

\* new_data = dict(data); new_data["conjugations"] = new_conj
narrowed(d, ms, ts, ps) ==
    [d EXCEPT !.conjugations =
        filter_moods(d.conjugations, _to_set(ms), _to_set(ts), _to_set(ps), <<>>)]

\* the flag full not looked at
apply_filters_narrowing(d, ms, ts, ps, f) ==
    narrowed(d, ms, ts, ps)

apply_filters(d, ms, ts, ps, f) ==
    IF f THEN d ELSE narrowed(d, ms, ts, ps)

\* app/api.py: ",".join(req.moods) if req.moods else None
api_csv(selection) ==
    IF selection = <<>> THEN None ELSE join(<<",">>, selection)

(***************************************************************************)
(* apply_filters on the result of a scrape (specification SpecFilter): the *)
(* page is any sequence of up to MaxSections of the sections below, the    *)
(* selections are absent, name every key present, or are the strings below.*)
(***************************************************************************)
MaxSections ==
    2

Row(person, form) ==
    [col |-> None, row |-> person, td |-> form]

FilterSections ==
    { [h4 |-> Title(s_indicativo),
       tables |-> << <<HeaderRow(s_presente), Row(s_io, <<"a">>),
                       Row(s_lui_lei, <<"b">>)>> >>],
      [h4 |-> Title(s_indicativo),
       tables |-> << <<HeaderRow(s_passato_remoto)>> >>],
      [h4 |-> Title(s_indicativo),
       tables |-> << <<HeaderRow(s_imperfetto), Row(s_tu, <<"g">>)>> >>],
      [h4 |-> Title(s_imperativo),
       tables |-> << <<HeaderRow(s_presente), Row(<<>>, <<"-">>),
                       Row(s_imp_Lei, <<"d">>)>> >>],
      [h4 |-> Title(s_imperativo), tables |-> <<>>],
      [h4 |-> Title(s_congiuntivo),
       tables |-> << <<HeaderRow(s_presente), Row(s_io, <<"e">>)>>,
                     <<HeaderRow(s_imperfetto), Row(s_tu, <<"f">>)>> >>],
      [h4 |-> None,
       tables |-> << <<HeaderRow(s_presente), Row(s_io, <<"x">>)>> >>] }

FilterDocs ==
    {[h3 |-> None, conjtable |-> <<>>, sections |-> s] :
        s \in SeqsUpTo(FilterSections, MaxSections)}

\* the keys of a sequence of keys, each once, in first-seen order
RECURSIVE first_seen(_, _)
first_seen(ks, seen) ==
    IF ks = <<>> THEN seen
    ELSE first_seen(Tail(ks),
                    IF \E i \in DOMAIN seen : seen[i] = Head(ks)
                    THEN seen
                    ELSE Append(seen, Head(ks)))

RECURSIVE flatten(_)
flatten(ss) ==
    IF ss = <<>> THEN <<>> ELSE Head(ss) \o flatten(Tail(ss))

\* the mood keys, the tense keys and the person labels present in a table
MoodKeys(conj) ==
    keys(conj)

TenseKeys(conj) ==
    first_seen(flatten([i \in DOMAIN conj |-> keys(conj[i][2])]), <<>>)

PersonKeys(conj) ==
    first_seen(
        flatten([i \in DOMAIN conj |->
                    flatten([j \in DOMAIN conj[i][2] |-> keys(conj[i][2][j][2])])]),
        <<>>)

MoodArgs(conj) ==
    {None, api_csv(MoodKeys(conj)), <<",">>, <<"z">>,
     <<"I", "N", "D", "I", "C", "A", "T", "I", "V", "O">>,
     <<" ">> \o s_imperativo \o <<" ", ",", " ">> \o s_congiuntivo}

TenseArgs(conj) ==
    {None, api_csv(TenseKeys(conj)), <<"z">>, s_presente}

PersonArgs(conj) ==
    {None, api_csv(PersonKeys(conj)), <<",">>, <<"z">>,
     <<"I", "O", ",", "(", "l", "e", "i", ")">>}

\* the result of scraping a page for the verb a
scraped(doc) ==
    scrape_result(<<"a">>, build_url(<<"a">>), parse_principal_forms(doc),
                  _detect_auxiliary(parse_conjugations(doc)),
                  parse_conjugations(doc))

InitFilter ==
    /\ pc = "call"
    /\ \E doc \in FilterDocs : data = <<scraped(doc)>>
    /\ moods = None
    /\ tenses = None
    /\ persons = None
    /\ full = FALSE
    /\ conjugations = <<>>
    /\ auxiliary = None
    /\ ret = <<>>
    /\ exc = <<>>
    /\ Idle_scrape
    /\ Idle_order

\* filtered = apply_filters(data, moods, tenses, persons, full)
FilterCall ==
    /\ pc = "call"
    /\ \E ms \in MoodArgs(data[1].conjugations),
          ts \in TenseArgs(data[1].conjugations),
          ps \in PersonArgs(data[1].conjugations),
          f \in BOOLEAN :
          /\ moods' = ms
          /\ tenses' = ts
          /\ persons' = ps
          /\ full' = f
          /\ ret' = <<apply_filters(data[1], ms, ts, ps, f)>>
    /\ pc' = "done"
    /\ UNCHANGED <<scrape_vars, order_vars, data, conjugations, auxiliary, exc>>

NextFilter ==
    FilterCall

SpecFilter ==
    InitFilter /\ [][NextFilter]_vars

(***************************************************************************)
(* Properties of apply_filters (specification SpecFilter).                 *)
(***************************************************************************)
Source ==
    data[1].conjugations

Narrowed ==
    ret[1].conjugations

\* the entries of a comma-separated selection, trimmed
Selected(csv) ==
    {strip(p) : p \in Range(split(csv, <<",">>[1]))}

Named(csv) ==
    {e \in Selected(csv) : e # <<>>}

Matches(e, ks) ==
    \E i \in DOMAIN ks : lower(ks[i]) = lower(e)

\* C5: narrowing (full = false) with the mood, tense and person selections
\* that name every mood key, tense key and person label present in the table
\* yields the table itself.
C5_RoundTrip ==
    (/\ pc = "done"
     /\ ~full
     /\ moods = api_csv(MoodKeys(Source))
     /\ tenses = api_csv(TenseKeys(Source))
     /\ persons = api_csv(PersonKeys(Source)))
    => Narrowed = Source

\* a selection is given and none of its entries is a key of the level
Disjoint(csv, ks) ==
    /\ csv # None
    /\ \A e \in Selected(csv) : ~Matches(e, ks)

\* a selection names something and nothing it names is a key of the level
NamedDisjoint(csv, ks) ==
    /\ csv # None
    /\ Named(csv) # {}
    /\ \A e \in Named(csv) : ~Matches(e, ks)

Pos(m, k) ==
    CHOOSE i \in DOMAIN m : m[i][1] = k

\* every key of sub is a key of m, and the keys of sub are in the order they
\* have in m
OrderedSubKeys(sub, m) ==
    /\ \A i \in DOMAIN sub : \E j \in DOMAIN m : m[j][1] = sub[i][1]
    /\ \A i, j \in DOMAIN sub :
          i < j => Pos(m, sub[i][1]) < Pos(m, sub[j][1])

Under(m, k) ==
    m[Pos(m, k)][2]

\* C7: with full = false the narrowed table is an order-preserving
\* sub-mapping of the source table: its moods, tenses and persons are keys of
\* the source at the same place, in the source's order, with the source's
\* forms, and it has no tense without persons and no mood without tenses.
C7_SubMapping ==
    (pc = "done" /\ ~full) =>
        /\ OrderedSubKeys(Narrowed, Source)
        /\ \A i \in DOMAIN Narrowed :
              LET m == Narrowed[i][1]
                  ts == Narrowed[i][2]
              IN  /\ ts # <<>>
                  /\ OrderedSubKeys(ts, Under(Source, m))
                  /\ \A j \in DOMAIN ts :
                        LET t == ts[j][1]
                            ps == ts[j][2]
                            src == Under(Under(Source, m), t)
                        IN  /\ ps # <<>>
                            /\ OrderedSubKeys(ps, src)
                            /\ \A k \in DOMAIN ps :
                                  ps[k][2] = Under(src, ps[k][1])

C7_Witness ==
    /\ pc = "done"
    /\ ~full
    /\ persons # None
    /\ Len(Narrowed) = 2
    /\ Narrowed # Source
    /\ \E i \in DOMAIN Source : Len(Source[i][2][1][2]) > Len(Narrowed[i][2][1][2])

C8_Step ==
    (pc = "call" /\ pc' = "done") =>
        /\ data' = data
        /\ full' => ret'[1] = data[1]
        /\ DOMAIN ret'[1] = DOMAIN data[1]
        /\ \A f \in DOMAIN data[1] \ {"conjugations"} : ret'[1][f] = data[1][f]

\* C8: with the flag full set apply_filters returns its input, equal in
\* every field, whatever the selections; with either value of the flag the
\* input is left as it was and every field but conjugations is carried over
\* unchanged.
C8_FullAndFrame ==
    [][C8_Step]_vars

C8_Witness ==
    /\ pc = "done"
    /\ full
    /\ moods = <<"z">>
    /\ persons = <<"z">>
    /\ Source # <<>>
    /\ ret = data

(***************************************************************************)
(* parse_conjugations on a page (specification SpecParse): the page has    *)
(* one person row whose cell holds any text of up to MaxRawLen characters, *)
(* or is any sequence of up to MaxParseSections of the sections below.     *)
(***************************************************************************)
MaxRawLen ==
    3

MaxParseSections ==
    3

\* the characters of a cell's text
RawChars ==
    {"a", " ", NBSP, TAB, NL}

RawForms ==
    SeqsUpTo(RawChars, MaxRawLen)

\* a page with one mood, one tense and one person row, its cell reading raw
CellDoc(raw) ==
    [h3 |-> None, conjtable |-> <<>>,
     sections |-> << [h4 |-> Title(s_indicativo),
                      tables |-> << <<HeaderRow(s_presente), Row(s_io, raw)>> >>] >>]

ParseSections ==
    { [h4 |-> Title(s_indicativo),
       tables |-> << <<HeaderRow(s_presente), Row(s_io, <<"a">>)>> >>],
      [h4 |-> Title(s_indicativo),
       tables |-> << <<HeaderRow(s_imperfetto), Row(s_tu, <<"g">>)>>,
                     <<HeaderRow(s_presente), Row(s_io, <<"b">>)>> >>],
      [h4 |-> <<" ", "I", "N", "D", "I", "C", "A", "T", "I", "V", "O", NL>>,
       tables |-> << <<Row(s_io, <<"x">>), Row(s_tu, <<"y">>)>> >>],
      [h4 |-> Title(s_indicativo), tables |-> <<>>],
      [h4 |-> Title(s_congiuntivo),
       tables |-> << <<HeaderRow(s_presente), Row(s_io, <<"e">>)>> >>],
      [h4 |-> Title(s_congiuntivo),
       tables |-> << <<HeaderRow(s_passato), Row(s_io, <<"f">>)>> >>],
      [h4 |-> None,
       tables |-> << <<HeaderRow(s_trapassato), Row(s_io, <<"z">>)>> >>] }

ParseDocs ==
    {CellDoc(raw) : raw \in RawForms}
    \cup {[h3 |-> None, conjtable |-> <<>>, sections |-> s] :
            s \in SeqsUpTo(ParseSections, MaxParseSections)}

InitParse ==
    /\ pc = "call"
    /\ \E doc \in ParseDocs : html = <<doc>>
    /\ verb = None
    /\ STRICT_CHECKS = FALSE
    /\ tries = 0
    /\ url = None
    /\ attempt = 0
    /\ last_err = <<>>
    /\ r = 0
    /\ errs = <<>>
    /\ log = <<>>
    /\ header = <<>>
    /\ stderr = <<>>
    /\ conjugations = <<>>
    /\ auxiliary = None
    /\ ret = <<>>
    /\ exc = <<>>
    /\ Idle_order
    /\ Idle_filter

\* conjugations = parse_conjugations(soup)
ParseCall ==
    /\ pc = "call"
    /\ conjugations' = parse_conjugations(html[1])
    /\ ret' = <<parse_conjugations(html[1])>>
    /\ pc' = "done"
    /\ UNCHANGED <<scrape_vars, order_vars, filter_vars, auxiliary, exc>>

NextParse ==
    ParseCall

SpecParse ==
    InitParse /\ [][NextParse]_vars

(***************************************************************************)
(* Properties of parse_conjugations (specification SpecParse).             *)
(***************************************************************************)
\* the texts of the cells of the person rows of the page
RawCells ==
    UNION {UNION {{trs[k].td : k \in {j \in DOMAIN trs :
                                        j > 1 /\ trs[j].row # None /\ trs[j].td # None}} :
                  trs \in Range(sec.tables)} :
           sec \in Range(html[1].sections)}

\* the forms at the leaves of a conjugation table
Leaves(conj) ==
    UNION {UNION {{pm[k][2] : k \in DOMAIN pm} :
                  pm \in {conj[i][2][j][2] : j \in DOMAIN conj[i][2]}} :
           i \in DOMAIN conj}

Normalized(o) ==
    /\ o # None
    /\ \A i \in DOMAIN o : o[i] # NBSP
    /\ \A i \in DOMAIN o : i > 1 => ~(o[i - 1] \in Whitespace /\ o[i] \in Whitespace)
    /\ o # <<>> => (o[1] \notin Whitespace /\ o[Len(o)] \notin Whitespace)

\* the characters of s that are not whitespace, in order
Inked(s) ==
    SelectSeq(s, LAMBDA c : c \notin Whitespace)

C12_Mood(sec) ==
    lower(strip(sec.h4))

C12_Tense(trs) ==
    IF trs # <<>> /\ trs[1].col # None /\ strip(trs[1].col) # <<>>
    THEN lower(strip(trs[1].col))
    ELSE <<"?">>

\* the sections with a mood heading, in page order
C12_Sections ==
    SelectSeq(html[1].sections, LAMBDA sec : sec.h4 # None)

\* the tenses named by the sections of mood m, in page order
C12_Tenses(m) ==
    LET of == SelectSeq(C12_Sections, LAMBDA sec : C12_Mood(sec) = m)
    IN  flatten([i \in DOMAIN of |->
                    [j \in DOMAIN of[i].tables |-> C12_Tense(of[i].tables[j])]])

\* C12: sections of the same mood merge: the moods of the table are the
\* moods the sections name, each once, in first-seen order, and the tenses
\* of a mood are the tenses named in any section of that mood, each once, in
\* first-seen order, so no later section removes a tense of an earlier one.
C12_SectionsMerge ==
    pc = "done" =>
        /\ keys(conjugations)
             = first_seen([i \in DOMAIN C12_Sections |-> C12_Mood(C12_Sections[i])],
                          <<>>)
        /\ \A i \in DOMAIN conjugations :
              keys(conjugations[i][2])
                = first_seen(C12_Tenses(conjugations[i][1]), <<>>)

C12_Witness ==
    /\ pc = "done"
    /\ Len(html[1].sections) = 3
    /\ [i \in 1..3 |-> C12_Mood(html[1].sections[i])]
         = <<s_indicativo, s_congiuntivo, s_indicativo>>
    /\ keys(conjugations) = <<s_indicativo, s_congiuntivo>>
    /\ keys(conjugations[1][2]) = <<s_presente, s_imperfetto>>
    /\ conjugations[1][2][1][2] = << <<s_io, <<"b">>>> >>
====
